---- MODULE Spec2Model ----
(***************************************************************************)
(* A model of konsole 0.3.0 (src/konsole/__init__.py): the console         *)
(* formatter (KonsoleFormatter), the module-level configuration (config),  *)
(* the logging entry point (KonsoleLogger.log) and the stream redirector   *)
(* (redirect).                                                             *)
(*                                                                         *)
(* Text is a sequence of characters, each character a one-letter string.   *)
(* The escape character is the token ESC; an SGR code ("1;31") is kept as  *)
(* one token between "[" and "m", and a level name ("ERROR") as one token  *)
(* between "[" and "]".  A Python exception is the name of its class,      *)
(* "None" when nothing was raised.                                         *)
(***************************************************************************)
EXTENDS Integers, Sequences, FiniteSets, TLC

VARIABLES
    use_color,    \* _formatter.use_color
    level,        \* logging.getLogger().level, the root threshold
    stream,       \* _handler.stream
    scopes,       \* the active redirect() generator frames, innermost last
    raising,      \* an exception is propagating out of the running code
    written,      \* what the handler wrote so far: <<stream, text>> pairs
    last,         \* the last module-level call and what became of it
    record,       \* the LogRecord handed to the formatter
    formatted     \* what Formatter.format made of record

vars == <<use_color, level, stream, scopes, raising, written, last, record, formatted>>

-----------------------------------------------------------------------------
(* Bounds of the model.                                                    *)

MaxLen == 2          \* longest message text
MaxVolume == 3       \* volumes range over -MaxVolume .. MaxVolume
MaxDepth == 2        \* deepest nesting of redirect scopes
MaxWritten == 2      \* records written before logging stops

-----------------------------------------------------------------------------
(* Severities, lines 53-57.                                                *)

CRITICAL == 50
ERROR == 40
WARNING == 30
INFO == 20
DEBUG == 10

Levels == {CRITICAL, ERROR, WARNING, INFO, DEBUG}

\* Level numbers logging has no name for; log() takes any integer.
CustomLevels == {25}

\* logging.getLevelName, which LogRecord.__init__ stores as record.levelname.
getLevelName(levelno) ==
    CASE levelno = CRITICAL -> "CRITICAL"
      [] levelno = ERROR -> "ERROR"
      [] levelno = WARNING -> "WARNING"
      [] levelno = INFO -> "INFO"
      [] levelno = DEBUG -> "DEBUG"
      [] levelno = 25 -> "Level 25"

-----------------------------------------------------------------------------
(* Text.                                                                   *)

ESC == "ESC"
NL == "\n"
SPACE == " "
INDENT == <<SPACE, SPACE, SPACE, SPACE>>

\* str.split("\n"): the pieces between the line breaks, empty ones included.
RECURSIVE split(_)
split(text) ==
    IF \A i \in 1..Len(text) : text[i] # NL
    THEN <<text>>
    ELSE LET i == CHOOSE k \in 1..Len(text) :
                      text[k] = NL /\ \A j \in 1..(k - 1) : text[j] # NL
         IN  <<SubSeq(text, 1, i - 1)>> \o split(SubSeq(text, i + 1, Len(text)))

\* sep.join(parts)
RECURSIVE join(_, _)
join(sep, parts) ==
    IF Len(parts) = 0 THEN <<>>
    ELSE IF Len(parts) = 1 THEN parts[1]
    ELSE parts[1] \o sep \o join(sep, Tail(parts))

\* "".join(lines)
RECURSIVE concat(_)
concat(lines) ==
    IF Len(lines) = 0 THEN <<>> ELSE lines[1] \o concat(Tail(lines))

\* f"{key:>{width}}": the text padded with spaces on the left up to width.
rjust(text, width) ==
    [i \in 1..(IF width > Len(text) THEN width - Len(text) ELSE 0) |-> SPACE] \o text

\* max() of a list of numbers that is not empty.
max(numbers) ==
    CHOOSE n \in {numbers[i] : i \in 1..Len(numbers)} :
        \A i \in 1..Len(numbers) : numbers[i] <= n

-----------------------------------------------------------------------------
(* SGR and the style table, lines 63-101.                                  *)

DETAIL == "<detail>"
EXCEPTION == "<exception>"
MESSAGE == "<message>"

PUNCTUATION == {"!", ",", ".", ":", ";", "?", "\"", "'"}

\* SGR.__call__
SGR(on, off, text) == <<ESC, "[", on, "m">> \o text \o <<ESC, "[", off, "m">>

STYLE ==
    [name \in {"CRITICAL", "ERROR", "WARNING", "INFO", MESSAGE, DETAIL, EXCEPTION} |->
        CASE name = "CRITICAL" -> [on |-> "1;35", off |-> "0;39"]
          [] name = "ERROR" -> [on |-> "1;31", off |-> "0;39"]
          [] name = "WARNING" -> [on |-> "1;38;5;208", off |-> "0;39"]
          [] name = "INFO" -> [on |-> "1", off |-> "0"]
          [] name = MESSAGE -> [on |-> "1", off |-> "0"]
          [] name = DETAIL -> [on |-> "90", off |-> "0"]
          [] name = EXCEPTION -> [on |-> "90", off |-> "0"]]

\* KonsoleFormatter.applyStyle: STYLE.get(name) is None for a name not in the table.
applyStyle(name, text) ==
    IF name \in DOMAIN STYLE /\ use_color
    THEN SGR(STYLE[name].on, STYLE[name].off, text)
    ELSE text

-----------------------------------------------------------------------------
(* Records.  A detail is absent (_NoSuchValue), a dict, a tuple or list, or  *)
(* anything else (a scalar).  Its items are the dict's entries in          *)
(* insertion order, the list's items in order, or the scalar itself; an    *)
(* item holds the str() form of the value and, for a dict, the key: its    *)
(* text and whether it is a str.  exc_info is None (not present) or        *)
(* carries the text logging.Formatter.formatException makes of it, which   *)
(* ends without a line break.                                              *)

Returned(text) == [raised |-> "None", text |-> text]
Raised(exception) == [raised |-> exception, text |-> <<>>]

\* KonsoleFormatter.formatDetail
formatDetail(rec) ==
    LET detail == rec.detail IN
    IF detail.kind = "absent" THEN Returned(<<>>)
    ELSE IF detail.kind = "dict" THEN
        IF Len(detail.items) = 0 THEN Raised("ValueError")
        ELSE IF \E i \in 1..Len(detail.items) : ~detail.items[i].isstr
        THEN Raised("TypeError")
        ELSE LET width == max([i \in 1..Len(detail.items) |-> Len(detail.items[i].key)])
                 lines == [i \in 1..Len(detail.items) |->
                              <<NL>> \o INDENT \o rjust(detail.items[i].key, width)
                                  \o <<SPACE, "=", SPACE>> \o detail.items[i].value]
             IN  Returned(applyStyle(DETAIL, concat(lines)))
    ELSE IF detail.kind = "list" THEN
        LET lines == [i \in 1..Len(detail.items) |-> <<NL>> \o INDENT \o detail.items[i].value]
        IN  Returned(applyStyle(DETAIL, concat(lines)))
    ELSE
        LET lines == <<(<<NL>> \o INDENT \o detail.items[1].value)>>
        IN  Returned(applyStyle(DETAIL, concat(lines)))

\* message.endswith(PUNCTUATION)
endswith(text, suffixes) == Len(text) > 0 /\ text[Len(text)] \in suffixes

\* formatMessage without the test of the label: the message is always given
\* the message style.
formatMessageAlwaysStyled(rec) ==
    LET levelname == applyStyle(rec.levelname, <<"[", rec.levelname, "]">>)
        message == rec.message
        detail == formatDetail(rec)
    IN  IF detail.raised # "None" THEN detail
        ELSE
        LET punctuated ==
                IF ~endswith(message, PUNCTUATION)
                THEN message \o (IF detail.text # <<>> \/ rec.exc_info.present
                                 THEN <<":">> ELSE <<".">>)
                ELSE message
            styled == applyStyle(MESSAGE, punctuated)
            separated ==
                IF detail.text # <<>> /\ rec.exc_info.present
                THEN detail.text \o <<NL, NL>>
                ELSE detail.text
        IN  Returned(levelname \o <<SPACE>> \o styled \o separated)

\* KonsoleFormatter.formatMessage
formatMessage(rec) ==
    LET levelname == applyStyle(rec.levelname, <<"[", rec.levelname, "]">>)
        message == rec.message
        detail == formatDetail(rec)
    IN  IF detail.raised # "None" THEN detail
        ELSE
        LET punctuated ==
                IF ~endswith(message, PUNCTUATION)
                THEN message \o (IF detail.text # <<>> \/ rec.exc_info.present
                                 THEN <<":">> ELSE <<".">>)
                ELSE message
            styled ==
                IF levelname[1] = ESC THEN applyStyle(MESSAGE, punctuated) ELSE punctuated
            separated ==
                IF detail.text # <<>> /\ rec.exc_info.present
                THEN detail.text \o <<NL, NL>>
                ELSE detail.text
        IN  Returned(levelname \o <<SPACE>> \o styled \o separated)

\* KonsoleFormatter.formatException
formatException(exc_info) ==
    LET text == exc_info.text
        indented == join(<<NL>> \o INDENT, split(text))
    IN  applyStyle(EXCEPTION, indented)

\* logging.Formatter.format, which KonsoleFormatter inherits: formatMessage,
\* then the exception text on a line of its own.
format(rec) ==
    LET s == formatMessage(rec) IN
    IF s.raised # "None"
    THEN [done |-> TRUE, raised |-> s.raised, message |-> <<>>, exc_text |-> <<>>, output |-> <<>>]
    ELSE
    LET exc_text == IF rec.exc_info.present THEN formatException(rec.exc_info) ELSE <<>>
        broken == IF exc_text # <<>> /\ ~endswith(s.text, {NL}) THEN s.text \o <<NL>> ELSE s.text
    IN  [done |-> TRUE, raised |-> "None", message |-> s.text, exc_text |-> exc_text,
         output |-> broken \o exc_text]

NotFormatted ==
    [done |-> FALSE, raised |-> "None", message |-> <<>>, exc_text |-> <<>>, output |-> <<>>]

-----------------------------------------------------------------------------
(* The records the formatter is applied to.                                *)

MsgChars == {"a", ")", "!", ":"}

RECURSIVE Texts(_, _)
Texts(chars, n) ==
    IF n = 0 THEN {<<>>}
    ELSE Texts(chars, n - 1) \cup
         {Append(t, c) : t \in {u \in Texts(chars, n - 1) : Len(u) = n - 1}, c \in chars}

Messages == Texts(MsgChars, MaxLen)

Entry(key, value) == [key |-> key, isstr |-> TRUE, value |-> value]
IntEntry(key, value) == [key |-> key, isstr |-> FALSE, value |-> value]
Item(value) == [key |-> <<>>, isstr |-> TRUE, value |-> value]

NoSuchValue == [kind |-> "absent", items |-> <<>>]
Dict(entries) == [kind |-> "dict", items |-> entries]
List(values) == [kind |-> "list", items |-> [i \in 1..Len(values) |-> Item(values[i])]]
Scalar(value) == [kind |-> "scalar", items |-> <<Item(value)>>]

Details ==
    { NoSuchValue,
      Scalar(<<"b">>),                                       \* detail="b"
      Scalar(<<"o", NL, "t">>),                              \* detail="o\nt"
      Dict(<<>>),                                            \* detail={}
      Dict(<<Entry(<<"k">>, <<"v">>)>>),                     \* detail={"k": "v"}
      Dict(<<Entry(<<"k">>, <<"v">>), Entry(<<"k", "k">>, <<"w">>)>>),
      Dict(<<Entry(<<"k", "k">>, <<"w">>), Entry(<<"k">>, <<"v">>)>>),
      Dict(<<IntEntry(<<"1">>, <<"v">>)>>),                  \* detail={1: "v"}
      List(<<>>),                                            \* detail=[]
      List(<<(<<"x">>)>>),                                   \* detail=["x"]
      List(<<(<<"x">>), (<<"y">>)>>) }                       \* detail=["x", "y"]

NoExcInfo == [present |-> FALSE, text |-> <<>>]
ExcInfo(text) == [present |-> TRUE, text |-> text]

ExcInfos == {NoExcInfo, ExcInfo(<<"T">>), ExcInfo(<<"T", NL, "F", NL, "E">>)}

\* logging.LogRecord as makeRecord builds it: the level and its name, the
\* interpolated message, the detail attribute and exc_info.
LogRecord(levelno, message, detail, exc_info) ==
    [levelno |-> levelno, levelname |-> getLevelName(levelno), message |-> message,
     detail |-> detail, exc_info |-> exc_info]

LogRecords ==
    {LogRecord(l, m, d, e) : l \in Levels \cup CustomLevels, m \in Messages,
                             d \in Details, e \in ExcInfos}

NoRecord == LogRecord(INFO, <<>>, NoSuchValue, NoExcInfo)

-----------------------------------------------------------------------------
(* The module's state after import, lines 213-221: the formatter's color   *)
(* flag is sys.stderr.isatty(), the handler writes to sys.stderr and the   *)
(* root level is INFO.                                                     *)

\* A call of the module and what became of it: for config the keywords given
\* and the volume among them, for a logging call the level, the detail and
\* whether the handler wrote the record, and the exception the call raised.
Called(op, given, volume, levelno, detail, raised, emitted) ==
    [op |-> op, given |-> given, volume |-> volume, levelno |-> levelno,
     detail |-> detail, raised |-> raised, emitted |-> emitted]

Imported == Called("import", {}, 0, 0, NoSuchValue, "None", FALSE)

ModuleInit ==
    /\ use_color \in BOOLEAN
    /\ level = INFO
    /\ stream = "stderr"
    /\ scopes = <<>>
    /\ raising = FALSE
    /\ written = <<>>
    /\ last = Imported

\* The formatter applied to one record.
FormatInit ==
    /\ ModuleInit
    /\ record \in LogRecords
    /\ formatted = NotFormatted

Format ==
    /\ ~formatted.done
    /\ formatted' = format(record)
    /\ UNCHANGED <<use_color, level, stream, scopes, raising, written, last, record>>

FormatNext == Format

FormatSpec == FormatInit /\ [][FormatNext]_vars

-----------------------------------------------------------------------------
(* What the claims about the formatter speak of.                           *)

\* text without its SGR directives, as test.py's ESC_SEQ finds them.
RECURSIVE StripSGR(_)
StripSGR(text) ==
    IF Len(text) = 0 THEN <<>>
    ELSE IF Len(text) >= 4 /\ text[1] = ESC /\ text[2] = "[" /\ text[4] = "m"
    THEN StripSGR(SubSeq(text, 5, Len(text)))
    ELSE <<text[1]>> \o StripSGR(Tail(text))

IsPrefix(prefix, text) ==
    Len(prefix) <= Len(text) /\ SubSeq(text, 1, Len(prefix)) = prefix

\* The number of blank lines in text: places where two line breaks meet.
BlankLines(text) ==
    Cardinality({i \in 1..(Len(text) - 1) : text[i] = NL /\ text[i + 1] = NL})

PlainLabel == <<"[", record.levelname, "]">>

\* The detail has at least one line to show.
HasDetailLines == record.detail.kind # "absent" /\ Len(record.detail.items) > 0

Suffixes == {<<>>, <<":">>, <<".">>}

\* formatMessage returned a text for the record.
Shaped == formatted.done /\ formatted.raised = "None"

\* The lines the spec gives each kind of detail.
SpecScalarBlock ==
    LET lines == split(record.detail.items[1].value)
    IN  concat([i \in 1..Len(lines) |-> <<NL>> \o INDENT \o lines[i]])

SpecWidth ==
    IF Len(record.detail.items) = 0 THEN 0
    ELSE max([i \in 1..Len(record.detail.items) |-> Len(record.detail.items[i].key)])

SpecDictBlock ==
    concat([i \in 1..Len(record.detail.items) |->
               <<NL>> \o INDENT \o rjust(record.detail.items[i].key, SpecWidth)
                   \o <<SPACE, "=", SPACE>> \o record.detail.items[i].value])

SpecListBlock ==
    concat([i \in 1..Len(record.detail.items) |->
               <<NL>> \o INDENT \o record.detail.items[i].value])

\* The text of formatMessage, without directives, is the label, the message
\* with some suffix, the given block and at most the separating blank line.
ShowsBlock(block) ==
    \E suffix \in Suffixes, tail \in {<<>>, <<NL, NL>>} :
        StripSGR(formatted.message)
            = PlainLabel \o <<SPACE>> \o record.message \o suffix \o block \o tail

\* C1: formatMessage appends nothing to a message that ends in punctuation and
\* otherwise exactly one character: ":" iff a detail block with at least one
\* line or an exception block follows, else ".", whatever the severity, the
\* color setting and the detail (absent, scalar, mapping or sequence, empty or
\* not).
C1_Punctuation ==
    formatted.done =>
        /\ formatted.raised = "None"
        /\ LET expected ==
                   IF endswith(record.message, PUNCTUATION) THEN record.message
                   ELSE record.message \o
                        (IF HasDetailLines \/ record.exc_info.present
                         THEN <<":">> ELSE <<".">>)
               head == PlainLabel \o <<SPACE>> \o expected
               plain == StripSGR(formatted.message)
           IN  /\ IsPrefix(head, plain)
               /\ Len(plain) > Len(head) => plain[Len(head) + 1] = NL

\* C2: formatting never raises because of the detail: an empty mapping gives
\* zero detail lines (the message ends "." and nothing follows it) and a
\* mapping with keys that are not strings is still rendered.
C2_DetailNeverRaises ==
    formatted.done /\ record.detail.kind = "dict" =>
        /\ formatted.raised = "None"
        /\ Len(record.detail.items) = 0 /\ ~record.exc_info.present =>
               \A i \in 1..Len(formatted.output) : formatted.output[i] # NL

\* C5: a scalar detail shows one indented line per line of its string form.
C5_ScalarLines ==
    formatted.done /\ record.detail.kind = "scalar" =>
        Shaped /\ ShowsBlock(SpecScalarBlock)

\* C7: in the whole output, a detail block and an exception block are
\* separated by exactly one blank line, and with only one of the two (or
\* neither) there is no blank line at all.
C7_BlankLine ==
    Shaped =>
        BlankLines(StripSGR(formatted.output))
            = (IF HasDetailLines /\ record.exc_info.present THEN 1 ELSE 0)

\* C8: formatException indents every line of the traceback text by four
\* spaces, the first one too, and wraps the block in the exception style iff
\* color is on.
C8_ExceptionIndented ==
    Shaped /\ record.exc_info.present =>
        LET lines == split(record.exc_info.text)
            block == join(<<NL>>, [i \in 1..Len(lines) |-> INDENT \o lines[i]])
        IN  formatted.exc_text = (IF use_color THEN SGR("90", "0", block) ELSE block)

\* C9: a mapping detail shows one line per entry, in insertion order, the key
\* right-aligned to the widest key, " = " and the value; a sequence detail one
\* indented line per item, in order.
C9_MappingAndSequenceLines ==
    /\ formatted.done /\ record.detail.kind = "dict"
           /\ (\A i \in 1..Len(record.detail.items) : record.detail.items[i].isstr) =>
                  Shaped /\ ShowsBlock(SpecDictBlock)
    /\ formatted.done /\ record.detail.kind = "list" =>
           Shaped /\ ShowsBlock(SpecListBlock)

\* The severities whose label has a style of its own.
StyledLevelNames == {"CRITICAL", "ERROR", "WARNING", "INFO"}

\* The message body is wrapped in the message style, after a styled label.
Emphasized ==
    \E suffix \in Suffixes :
        IsPrefix(SGR(STYLE[record.levelname].on, STYLE[record.levelname].off, PlainLabel)
                     \o <<SPACE>> \o SGR("1", "0", record.message \o suffix),
                 formatted.message)

\* The label and the message body are bare: what follows the body, if
\* anything, is the detail block.
Unstyled ==
    \E suffix \in Suffixes :
        LET head == PlainLabel \o <<SPACE>> \o record.message \o suffix
            rest == SubSeq(formatted.message, Len(head) + 1, Len(formatted.message))
        IN  /\ IsPrefix(head, formatted.message)
            /\ suffix = <<>> => endswith(record.message, PUNCTUATION)
            /\ rest = <<>> \/ rest[1] = NL \/ IsPrefix(<<ESC, "[", "90", "m">>, rest)

\* C6: the message body is wrapped in the message style iff the severity's
\* label has a style and color is on; a DEBUG message is never emphasized, and
\* with color off the output holds no escape directive at all.
C6_EmphasisFollowsLabel ==
    Shaped =>
        /\ IF record.levelname \in StyledLevelNames /\ use_color
           THEN Emphasized ELSE Unstyled
        /\ ~use_color => \A i \in 1..Len(formatted.output) : formatted.output[i] # ESC

C6_Witness ==
    /\ Shaped /\ use_color /\ record.levelname = "ERROR" /\ Emphasized
    /\ record.message = <<"a">> /\ record.detail = Scalar(<<"b">>)

-----------------------------------------------------------------------------
(* The module at work: config, the logging calls and redirect.             *)

\* The keyword arguments of a call of config: the names given and their
\* values (a name not given has the value the model never reads).
Kwargs(given, lvl, color, volume) ==
    [given |-> given,
     level |-> IF "level" \in given THEN lvl ELSE 0,
     use_color |-> IF "use_color" \in given THEN color ELSE FALSE,
     volume |-> IF "volume" \in given THEN volume ELSE 0]

\* config(*, level=None, use_color=None): Python raises TypeError on a keyword
\* the signature does not have, before the body runs.
config(kwargs) ==
    /\ ~raising
    /\ IF kwargs.given \subseteq {"level", "use_color"}
       THEN /\ level' = (IF "level" \in kwargs.given THEN kwargs.level ELSE level)
            /\ use_color' = (IF "use_color" \in kwargs.given
                             THEN kwargs.use_color ELSE use_color)
            /\ raising' = FALSE
            /\ last' = Called("config", kwargs.given, kwargs.volume, 0, NoSuchValue, "None", FALSE)
       ELSE /\ UNCHANGED <<level, use_color>>
            /\ raising' = TRUE
            /\ last' = Called("config", kwargs.given, kwargs.volume, 0, NoSuchValue, "TypeError", FALSE)
    /\ UNCHANGED <<stream, scopes, written, record, formatted>>

\* _prepare_detail: the exception it raises, "None" if it returns.
prepare_detail(extra) ==
    IF extra = "absent" THEN "None"
    ELSE IF extra # "dict" THEN "ValueError"
    ELSE "None"

\* logging.Logger.isEnabledFor for a logger that inherits the root's level.
isEnabledFor(levelno) == levelno >= level

\* KonsoleLogger.log, which every logging function of the module calls: the
\* detail moves into extra, and logging.Logger.log hands an enabled record to
\* the one handler, whose emit formats it and writes the text and a line
\* break to the handler's stream.  When the formatter raises, emit catches it
\* and calls handleError, which reports on sys.stderr and writes no record.
log(levelno, message, detail, extra) ==
    /\ ~raising
    /\ Len(written) < MaxWritten
    /\ LET failed == IF detail.kind # "absent" THEN prepare_detail(extra) ELSE "None"
           result == format(LogRecord(levelno, message, detail, NoExcInfo))
       IN  IF failed # "None"
           THEN /\ raising' = TRUE
                /\ last' = Called("log", {}, 0, levelno, detail, failed, FALSE)
                /\ UNCHANGED written
           ELSE IF ~isEnabledFor(levelno)
           THEN /\ raising' = FALSE
                /\ last' = Called("log", {}, 0, levelno, detail, "None", FALSE)
                /\ UNCHANGED written
           ELSE /\ raising' = FALSE
                /\ written' = (IF result.raised = "None"
                               THEN Append(written, [stream |-> stream,
                                                     text |-> result.output \o <<NL>>])
                               ELSE written)
                /\ last' = Called("log", {}, 0, levelno, detail, "None", result.raised = "None")
    /\ UNCHANGED <<use_color, level, stream, scopes, record, formatted>>

\* logging.StreamHandler.setStream: the handler's stream afterwards.
setStream(new_stream) == new_stream

\* redirect(stream).__enter__(): the generator runs up to its yield.
redirect_enter(new_stream) ==
    /\ ~raising
    /\ Len(scopes) < MaxDepth
    /\ scopes' = Append(scopes, [stream |-> new_stream, old_stream |-> stream])
    /\ stream' = setStream(new_stream)
    /\ last' = Called("enter", {}, 0, 0, NoSuchValue, "None", FALSE)
    /\ UNCHANGED <<use_color, level, raising, written, record, formatted>>

\* The generator without its finally: an exception thrown in at the yield
\* leaves the stream as it is.
restoredWithoutFinally(frame, thrown) ==
    IF thrown THEN stream ELSE setStream(frame.old_stream)

\* The handler's stream once the generator has run from its yield to its end,
\* whether resumed or with the scope's exception thrown in: the finally clause.
restored(frame, thrown) == setStream(frame.old_stream)

\* redirect(stream).__exit__(): the innermost scope ends, normally or with an
\* exception of its body, which propagates on.
redirect_exit(thrown) ==
    /\ Len(scopes) > 0
    /\ raising => thrown
    /\ stream' = restored(scopes[Len(scopes)], thrown)
    /\ scopes' = SubSeq(scopes, 1, Len(scopes) - 1)
    /\ raising' = thrown
    /\ last' = Called("exit", {}, 0, 0, NoSuchValue,
                    IF thrown THEN "Exception" ELSE "None", FALSE)
    /\ UNCHANGED <<use_color, level, written, record, formatted>>

\* The caller's except clause takes the exception.
catch ==
    /\ raising
    /\ raising' = FALSE
    /\ UNCHANGED <<use_color, level, stream, scopes, written, last, record, formatted>>

Volumes == (0 - MaxVolume)..MaxVolume

ConfigCalls ==
    {Kwargs(g, l, c, v) : g \in SUBSET {"level", "use_color", "volume"},
                          l \in Levels, c \in BOOLEAN, v \in Volumes}

\* What the module's callers log and where they redirect to.
LoggedMessages == {<<"a">>}
LoggedDetails == {NoSuchValue, Dict(<<>>)}
Extras == {"absent", "dict", "str"}

\* The extra keyword a call gives along with detail d: anything with a detail,
\* which _prepare_detail inspects, and a dict or nothing without one, when the
\* keyword goes to logging unread.
ExtrasWith(d) == IF d.kind = "absent" THEN {"absent", "dict"} ELSE Extras
Streams == {"stderr", "s1", "s2"}

Init ==
    /\ ModuleInit
    /\ record = NoRecord
    /\ formatted = NotFormatted

\* Configuration and logging.
ConfigNext ==
    \/ \E kwargs \in ConfigCalls : config(kwargs)
    \/ \E l \in Levels, m \in LoggedMessages, d \in LoggedDetails :
           \E x \in ExtrasWith(d) : log(l, m, d, x)
    \/ catch

ConfigSpec == Init /\ [][ConfigNext]_vars

\* Redirection and logging.
RedirectNext ==
    \/ \E s \in Streams : redirect_enter(s)
    \/ \E thrown \in BOOLEAN : redirect_exit(thrown)
    \/ \E l \in {INFO}, m \in LoggedMessages, d \in LoggedDetails :
           \E x \in ExtrasWith(d) : log(l, m, d, x)
    \/ catch

RedirectSpec == Init /\ [][RedirectNext]_vars

-----------------------------------------------------------------------------
(* What the claims about the module speak of.                              *)

\* The spec's table from volume to threshold, after clamping to -2 .. 2.
SpecVolumeLevel(volume) ==
    LET clamped == IF volume < 0 - 2 THEN 0 - 2 ELSE IF volume > 2 THEN 2 ELSE volume
    IN  CASE clamped = 0 - 2 -> CRITICAL
          [] clamped = 0 - 1 -> ERROR
          [] clamped = 0 -> WARNING
          [] clamped = 1 -> INFO
          [] clamped = 2 -> DEBUG

\* C3: config accepts a volume, and after config(volume=v), with or without a
\* level in the same call, the root threshold is the table's level for v
\* clamped to -2 .. 2.
C3_VolumeSetsThreshold ==
    last.op = "config" /\ "volume" \in last.given =>
        /\ last.raised = "None"
        /\ level = SpecVolumeLevel(last.volume)

HasDirective(text) == \E i \in 1..Len(text) : text[i] = ESC

\* C10: in any interleaving of config and logging calls, a logging call that
\* returns writes its record iff the severity is at least the threshold of the
\* most recent config (INFO at first), styled by the most recent color
\* setting; no call alters what was written before; a config call with only a
\* color leaves the threshold and one with only a level leaves the color flag.
C10_ConfigTakesEffectAtOnce ==
    [][ /\ Len(written) <= Len(written')
        /\ SubSeq(written', 1, Len(written)) = written
        /\ ~raising /\ last'.op = "log" /\ last'.raised = "None" =>
               /\ Len(written') = Len(written) + 1 <=> last'.levelno >= level
               /\ Len(written') = Len(written) + 1 =>
                      (HasDirective(written'[Len(written')].text)
                           <=> use_color /\ last'.levelno # DEBUG)
        /\ ~raising /\ last'.op = "config" =>
               /\ written' = written
               /\ last'.given = {"use_color"} => level' = level
               /\ last'.given = {"level"} => use_color' = use_color
      ]_vars

\* C4: entering a redirect scope installs the supplied stream and keeps the
\* one that was active; nothing but entering and leaving a scope changes the
\* handler's stream; and when the scope is left, normally or by an exception,
\* the handler's stream is again the one that was active before it was
\* entered, the scopes around it untouched.
C4_RedirectRestores ==
    [][ /\ Len(scopes') = Len(scopes) + 1 =>
               /\ scopes'[Len(scopes')].old_stream = stream
               /\ stream' = scopes'[Len(scopes')].stream
               /\ SubSeq(scopes', 1, Len(scopes)) = scopes
        /\ Len(scopes') = Len(scopes) - 1 =>
               /\ stream' = scopes[Len(scopes)].old_stream
               /\ scopes' = SubSeq(scopes, 1, Len(scopes'))
        /\ Len(scopes') = Len(scopes) => scopes' = scopes /\ stream' = stream
        /\ Len(scopes') \in {Len(scopes) - 1, Len(scopes), Len(scopes) + 1}
      ]_vars

\* An inner scope redirecting to s2 was left by an exception and the handler
\* writes to the outer scope's s1 again.
C4_Witness ==
    /\ last.op = "exit" /\ last.raised = "Exception"
    /\ Len(scopes) = 1 /\ scopes[1].stream = "s1" /\ scopes[1].old_stream = "stderr"
    /\ stream = "s1"
    /\ \E i \in 1..Len(written) : written[i].stream = "s2"

====
